---------------------------- MODULE Spec2Model ----------------------------
(***************************************************************************)
(* A model of the TNEA choice-filling MCP server (src/src/index.ts).       *)
(*                                                                         *)
(* The server object holds four fields (sessionId, seatMatrix, cutoffData, *)
(* preferredCourses) and answers tool calls; generateSelectionPayload is   *)
(* the ranking function applied to the three datasets.                     *)
(* Spec handles one call at a time, SpecRank is the ranker alone, and      *)
(* SpecInterleaved lets the async handlers overlap at their awaits.        *)
(*                                                                         *)
(* Representation of JavaScript values:                                    *)
(*   - a JS string that the code inspects character by character (college  *)
(*     names, district fragments, cutoff scores, college codes) is a       *)
(*     sequence of one-character strings;                                  *)
(*   - a JS string that the code only compares with === or puts in a Set   *)
(*     (course codes, seat ids, course names) is a TLA+ string;            *)
(*   - a JS number is an integer counting tenths (90.5 is 905, 5 is 50),   *)
(*     so the numerals of the modelled data have at most one fractional    *)
(*     digit; NaN is a separate value;                                     *)
(*   - a field value of a JSON record is a tagged record (Num, Str,        *)
(*     Undefined);                                                         *)
(*   - a parsed JSON document is tagged with its kind (array, object,      *)
(*     null), because the code stores whatever JSON it receives.           *)
(***************************************************************************)
EXTENDS Integers, Sequences, FiniteSets, TLC

VARIABLES
    sessionId,          \* this.sessionId: "null" or the portal's session id
    seatMatrix,         \* this.seatMatrix: a JSON document
    cutoffData,         \* this.cutoffData: a JSON document
    preferredCourses,   \* this.preferredCourses: a JSON document
    request,            \* the tool call handled last (name and arguments)
    reply,              \* what the caller got back for it
    inflight            \* the handlers suspended at an await

vars == <<sessionId, seatMatrix, cutoffData, preferredCourses, request, reply,
          inflight>>

-----------------------------------------------------------------------------
(* JavaScript values *)

Num(n) == [t |-> "num", n |-> n, s |-> <<>>]
Str(s) == [t |-> "str", n |-> 0, s |-> s]
Undefined == [t |-> "undef", n |-> 0, s |-> <<>>]

\* A number of the data written as a whole number (5 seats, college 100).
Whole(i) == Num(i * 10)

JsonArray(items) == [kind |-> "array", items |-> items]
JsonObject == [kind |-> "object", items |-> <<>>]
JsonNull == [kind |-> "null", items |-> <<>>]

DigitChars == <<"0", "1", "2", "3", "4", "5", "6", "7", "8", "9">>

IsDigit(c) == \E d \in 1..10 : DigitChars[d] = c

DigitVal(c) == (CHOOSE d \in 1..10 : DigitChars[d] = c) - 1

RECURSIVE NatToString(_)
NatToString(k) ==
    IF k < 10 THEN <<DigitChars[k + 1]>>
    ELSE NatToString(k \div 10) \o <<DigitChars[(k % 10) + 1]>>

\* Number::toString of a number held in tenths.
NumberToString(n) ==
    LET abs == IF n < 0 THEN -n ELSE n
        ip == abs \div 10
        fp == abs % 10
    IN  (IF n < 0 THEN <<"-">> ELSE <<>>)
        \o NatToString(ip)
        \o (IF fp = 0 THEN <<>> ELSE <<".", DigitChars[fp + 1]>>)

\* String(v)
String(v) ==
    CASE v.t = "num" -> NumberToString(v.n)
      [] v.t = "str" -> v.s
      [] OTHER -> <<"u", "n", "d", "e", "f", "i", "n", "e", "d">>

NaN == [nan |-> TRUE, v |-> 0]
Number(v) == [nan |-> FALSE, v |-> v]

\* Length of the longest prefix of s made of digits.
RECURSIVE DigitRun(_)
DigitRun(s) ==
    IF s = <<>> \/ ~IsDigit(Head(s)) THEN 0 ELSE 1 + DigitRun(Tail(s))

RECURSIVE DigitsValue(_)
DigitsValue(s) ==
    IF s = <<>> THEN 0
    ELSE DigitsValue(SubSeq(s, 1, Len(s) - 1)) * 10 + DigitVal(s[Len(s)])

RECURSIVE TrimStart(_)
TrimStart(s) ==
    IF s # <<>> /\ Head(s) = " " THEN TrimStart(Tail(s)) ELSE s

\* parseFloat(s): leading white space is skipped, then the longest prefix that
\* is a decimal literal (sign, digits, ".", digits) is read; NaN when there is
\* none. The value is kept to the tenth. Exponents and "Infinity" are not read.
parseFloat(s) ==
    LET t == TrimStart(s)
        neg == t # <<>> /\ Head(t) = "-"
        signed == t # <<>> /\ Head(t) \in {"-", "+"}
        u == IF signed THEN Tail(t) ELSE t
        k == DigitRun(u)
        afterInt == SubSeq(u, k + 1, Len(u))
        hasDot == afterInt # <<>> /\ Head(afterInt) = "."
        fracPart == IF hasDot THEN Tail(afterInt) ELSE <<>>
        f == DigitRun(fracPart)
        mag == DigitsValue(SubSeq(u, 1, k)) * 10
               + (IF f > 0 THEN DigitVal(fracPart[1]) ELSE 0)
    IN  IF k = 0 /\ f = 0 THEN NaN
        ELSE Number(IF neg THEN -mag ELSE mag)

Uppers == <<"A", "B", "C", "D", "E", "F", "G", "H", "I", "J", "K", "L", "M",
            "N", "O", "P", "Q", "R", "S", "T", "U", "V", "W", "X", "Y", "Z">>
Lowers == <<"a", "b", "c", "d", "e", "f", "g", "h", "i", "j", "k", "l", "m",
            "n", "o", "p", "q", "r", "s", "t", "u", "v", "w", "x", "y", "z">>

\* String.prototype.toLowerCase
toLowerCase(s) ==
    [i \in DOMAIN s |->
        IF \E k \in DOMAIN Uppers : Uppers[k] = s[i]
        THEN Lowers[CHOOSE k \in DOMAIN Uppers : Uppers[k] = s[i]]
        ELSE s[i]]

\* String.prototype.includes
includes(s, sub) ==
    \E i \in 0..(Len(s) - Len(sub)) : SubSeq(s, i + 1, i + Len(sub)) = sub

-----------------------------------------------------------------------------
(* generateSelectionPayload, index.ts lines 412-495 *)

\* rec[key] of a JSON record: undefined when the record has no such key.
Get(rec, key) == IF key \in DOMAIN rec THEN rec[key] ELSE Undefined

\* new Set(this.preferredCourses.map(course => course.branCode))
allowedBranchCodes(courses) == {courses[i].branCode : i \in DOMAIN courses}

\* SeatPassesFilters with the seat-count guard written categorySeats < 0.
SeatPassesFiltersZeroAllowed(seat, courses, category) ==
    LET categorySeats == Get(seat, category)
    IN  /\ seat.branCode \in allowedBranchCodes(courses)
        /\ ~(categorySeats.t # "num" \/ categorySeats.n < 0)

\* The two `continue` guards at the head of the loop body: the seat goes on to
\* cutoff resolution iff its course is allowed and its seat count for the
\* category is a number greater than 0.
SeatPassesFilters(seat, courses, category) ==
    LET categorySeats == Get(seat, category)
    IN  /\ seat.branCode \in allowedBranchCodes(courses)
        /\ ~(categorySeats.t # "num" \/ categorySeats.n <= 0)

\* FindCutoff that returns the last record of the key, as a Map built from the
\* list would.
FindLastCutoff(cutoffs, colCode, brc) ==
    LET hits == {i \in DOMAIN cutoffs :
                    /\ String(cutoffs[i].coc) = String(colCode)
                    /\ cutoffs[i].brc = brc}
    IN  IF hits = {} THEN 0 ELSE CHOOSE i \in hits : \A j \in hits : i >= j

\* this.cutoffData.find(c => String(c.coc) === String(colCode) && c.brc === brc):
\* the index of the first such record, 0 for undefined.
FindCutoff(cutoffs, colCode, brc) ==
    LET hits == {i \in DOMAIN cutoffs :
                    /\ String(cutoffs[i].coc) = String(colCode)
                    /\ cutoffs[i].brc = brc}
    IN  IF hits = {} THEN 0 ELSE CHOOSE i \in hits : \A j \in hits : i <= j

\* MatchingCutoff without the fallback lookup.
MatchingCutoffExactOnly(cutoffs, seat) ==
    FindCutoff(cutoffs, seat.colCode, seat.branCode)

\* MatchingCutoff whose fallback lookup tests c.brc === "CS" alone.
MatchingCutoffAnyCollege(cutoffs, seat) ==
    LET exact == FindCutoff(cutoffs, seat.colCode, seat.branCode)
        anyCS == {i \in DOMAIN cutoffs : cutoffs[i].brc = "CS"}
    IN  IF exact # 0 THEN exact
        ELSE IF anyCS = {} THEN 0
        ELSE CHOOSE i \in anyCS : \A j \in anyCS : i <= j

\* The exact lookup, then the lookup of the college's "CS" record.
MatchingCutoff(cutoffs, seat) ==
    LET exact == FindCutoff(cutoffs, seat.colCode, seat.branCode)
    IN  IF exact # 0 THEN exact ELSE FindCutoff(cutoffs, seat.colCode, "CS")

\* x || y on numbers: x when it is truthy (neither NaN nor 0), else y.
OrElse(x, y) == IF ~x.nan /\ x.v # 0 THEN x ELSE y

\* parseFloat(String(matchingCutoff[category])) || parseFloat(String(matchingCutoff.OC))
CutoffScore(cutoff, category) ==
    OrElse(parseFloat(String(Get(cutoff, category))),
           parseFloat(String(cutoff.OC)))

\* ValidSelection with branch read from branCode.
ValidSelectionBranchCode(seat, score) ==
    [id |-> seat._id, college |-> seat.colName, branch |-> seat.branCode,
     cutoff |-> score]

ValidSelection(seat, score) ==
    [id |-> seat._id, college |-> seat.colName, branch |-> seat.branName,
     cutoff |-> score]

\* What one iteration of the loop pushes on validSelections: nothing or one entry.
SeatSelections(seat, cutoffs, courses, category) ==
    IF ~SeatPassesFilters(seat, courses, category) THEN <<>>
    ELSE LET m == MatchingCutoff(cutoffs, seat)
         IN  IF m = 0 THEN <<>>
             ELSE LET cutoffScore == CutoffScore(cutoffs[m], category)
                  IN  IF cutoffScore.nan THEN <<>>
                      ELSE <<ValidSelection(seat, cutoffScore.v)>>

RECURSIVE validSelections(_, _, _, _)
validSelections(seats, cutoffs, courses, category) ==
    IF seats = <<>> THEN <<>>
    ELSE validSelections(SubSeq(seats, 1, Len(seats) - 1), cutoffs, courses, category)
         \o SeatSelections(seats[Len(seats)], cutoffs, courses, category)

\* InsertByCutoff of a sort that is not stable: item goes before the entries
\* of equal cutoff.
InsertBeforeEqualCutoff(list, item) ==
    LET k == Cardinality({i \in DOMAIN list : list[i].cutoff > item.cutoff})
    IN  SubSeq(list, 1, k) \o <<item>> \o SubSeq(list, k + 1, Len(list))

\* Where sort puts item in an already sorted list: after every entry that the
\* comparator (a, b) => b.cutoff - a.cutoff does not order after it, that is
\* after the entries with a cutoff greater than or equal to its own (the sort
\* of ECMAScript 2019 is stable).
InsertByCutoff(list, item) ==
    LET k == Cardinality({i \in DOMAIN list : list[i].cutoff >= item.cutoff})
    IN  SubSeq(list, 1, k) \o <<item>> \o SubSeq(list, k + 1, Len(list))

\* sorted with the comparator (a, b) => a.cutoff - b.cutoff.
RECURSIVE sortedAscending(_)
sortedAscending(list) ==
    IF list = <<>> THEN <<>>
    ELSE LET rest == sortedAscending(SubSeq(list, 1, Len(list) - 1))
             item == list[Len(list)]
             k == Cardinality({i \in DOMAIN rest : rest[i].cutoff <= item.cutoff})
         IN  SubSeq(rest, 1, k) \o <<item>> \o SubSeq(rest, k + 1, Len(rest))

\* validSelections.sort((a, b) => b.cutoff - a.cutoff)
RECURSIVE sorted(_)
sorted(list) ==
    IF list = <<>> THEN <<>>
    ELSE InsertByCutoff(sorted(SubSeq(list, 1, Len(list) - 1)), list[Len(list)])

\* str?.toLowerCase()
normalize(str) == toLowerCase(str)

\* dists.some(dist => normalize(college).includes(normalize(dist)))
SomeDistrict(dists, college) ==
    \E d \in DOMAIN dists : includes(normalize(college), normalize(dists[d]))

filteredByDistrict(list, districtChoices) ==
    SelectSeq(list, LAMBDA item : SomeDistrict(districtChoices, item.college))

\* IsTopPreferredHighCutoff with the threshold test written >=.
IsTopPreferredAtLeastCutoff(item, topPrefDist, minCutoff) ==
    SomeDistrict(topPrefDist, item.college) /\ item.cutoff >= minCutoff

\* The test of the partition loop: isTopDist && item.cutoff > minCutoff.
IsTopPreferredHighCutoff(item, topPrefDist, minCutoff) ==
    SomeDistrict(topPrefDist, item.college) /\ item.cutoff > minCutoff

topPreferredHighCutoff(list, topPrefDist, minCutoff) ==
    SelectSeq(list, LAMBDA item : IsTopPreferredHighCutoff(item, topPrefDist, minCutoff))

\* others of a loop that pushes every item on others, without the else.
othersKeepsAll(list, topPrefDist, minCutoff) == list

others(list, topPrefDist, minCutoff) ==
    SelectSeq(list, LAMBDA item : ~IsTopPreferredHighCutoff(item, topPrefDist, minCutoff))

finalSorted(list, topPrefDist, minCutoff) ==
    topPreferredHighCutoff(list, topPrefDist, minCutoff)
    \o others(list, topPrefDist, minCutoff)

Selections(final) == [i \in DOMAIN final |-> final[i].id]

Reference(final) ==
    [i \in DOMAIN final |->
        [college |-> final[i].college, branch |-> final[i].branch,
         cutoff |-> final[i].cutoff]]

\* The ranker on arrays.
Payload(seats, cutoffs, courses, districtChoices, topPrefDist, minCutoff, category) ==
    LET final == finalSorted(
                    filteredByDistrict(
                        sorted(validSelections(seats, cutoffs, courses, category)),
                        districtChoices),
                    topPrefDist, minCutoff)
    IN  [threw |-> FALSE, selections |-> Selections(final),
         reference |-> Reference(final)]

Thrown == [threw |-> TRUE, selections |-> <<>>, reference |-> <<>>]

\* A TypeError ends the ranker when a field holds a JSON document that is not an
\* array: preferredCourses.map is called first, then seatMatrix is iterated,
\* and cutoffData.find is called for the first seat that passes both filters.
generateSelectionPayload(districtChoices, topPrefDist, minCutoff, category) ==
    IF preferredCourses.kind # "array" \/ seatMatrix.kind # "array" THEN Thrown
    ELSE IF /\ cutoffData.kind # "array"
            /\ \E i \in DOMAIN seatMatrix.items :
                  SeatPassesFilters(seatMatrix.items[i], preferredCourses.items, category)
         THEN Thrown
         ELSE Payload(seatMatrix.items, cutoffData.items, preferredCourses.items,
                      districtChoices, topPrefDist, minCutoff, category)

-----------------------------------------------------------------------------
(* The data the model draws its inputs from *)

\* Longest seat matrix handed to the ranker.
MaxSeats == 3

Chennai == <<"C", "h", "e", "n", "n", "a", "i">>
Madurai == <<"M", "a", "d", "u", "r", "a", "i">>

Seat(id, colCode, colName, branCode, branName, oc, mbc) ==
    [_id |-> id, colCode |-> colCode, colName |-> colName, branCode |-> branCode,
     branName |-> branName, OC |-> oc, MBC |-> mbc]

s1 == Seat("s1", Str(<<"1", "0", "0">>), Chennai, "CS", "Computer Science", Whole(2), Whole(5))
s2 == Seat("s2", Str(<<"1", "0", "0">>), Chennai, "EC", "Electronics", Whole(0), Whole(3))
s3 == Seat("s3", Str(<<"2", "0", "0">>), Madurai, "EC", "Electronics", Str(<<"4">>), Whole(2))
s4 == Seat("s4", Whole(200), Madurai, "CS", "Computer Science", Whole(1), Whole(1))

SeatRecords == {s1, s2, s3, s4}

Cutoff(coc, brc, oc, mbc) == [coc |-> coc, brc |-> brc, OC |-> oc, MBC |-> mbc]

k1 == Cutoff(Whole(100), "CS", Str(<<"9", "5">>), Str(<<"9", "0", ".", "5">>))
k2 == Cutoff(Str(<<"2", "0", "0">>), "CS", Num(921), Whole(88))
k3 == Cutoff(Whole(100), "EC", Str(<<"8", "0", ".", "5">>), Str(<<"0">>))
k4 == Cutoff(Whole(200), "CS", Undefined, Str(<<"N", "A">>))
k5 == Cutoff(Whole(200), "EC", Str(<<"8", "9", ".", "5">>), Undefined)
k6 == Cutoff(Whole(100), "EC", Str(<<"-">>), Whole(0))
k7 == Cutoff(Whole(100), "CS", Str(<<"7", "0">>), Str(<<"8", "5">>))
k8 == Cutoff(Whole(200), "EC", Undefined, Str(<<"N", "A">>))

\* Contents the cutoff file may have. The file may hold a college's "CS" record
\* before the record of another course of the college (k1 before k3), two
\* records of one college and course (k1 and k7), and a record without a
\* numeric score whose college has a "CS" record (k8 and k2).
CutoffTables == {<<k1>>, <<k1, k2, k5>>, <<k1, k4, k3>>, <<k6, k2, k1, k8, k7>>}

Course(branCode, branName) == [branCode |-> branCode, branName |-> branName]

\* Contents the course-preference file may have.
CourseLists ==
    {<<Course("CS", "Computer Science"), Course("EC", "Electronics")>>,
     <<Course("CS", "Computer Science")>>}

RECURSIVE SeqsUpTo(_, _)
SeqsUpTo(S, n) ==
    IF n = 0 THEN {<<>>}
    ELSE LET shorter == SeqsUpTo(S, n - 1)
         IN  shorter \cup {Append(q, x) : q \in shorter, x \in S}

\* Any parsed JSON document that is not an array of records.
NonArrays == {JsonObject, JsonNull}

CutoffDocs == {JsonArray(c) : c \in CutoffTables \cup {<<>>}} \cup NonArrays
CourseDocs == {JsonArray(c) : c \in CourseLists \cup {<<>>}} \cup NonArrays

\* Optional arguments of a tool call.
Given(v) == [present |-> TRUE, v |-> v]
NoList == [present |-> FALSE, v |-> <<>>]
NoNumber == [present |-> FALSE, v |-> 0]
NoString == [present |-> FALSE, v |-> ""]

DistrictLists ==
    {<<>>,
     <<<<"C", "H", "E", "N", "N">>>>,
     <<<<"m", "a", "d", "u", "r", "a", "i">>, <<"c", "h", "e", "n">>>>}

TopDistrictLists == {<<<<"M", "A", "D", "U", "R", "A", "I">>>>}

GenerateChoicesArgs ==
    [districtChoices : {NoList} \cup {Given(d) : d \in DistrictLists},
     topPrefDist : {NoList} \cup {Given(d) : d \in TopDistrictLists},
     minCutoff : {NoNumber, Given(880)},
     category : {NoString, Given("OC")},
     filePath : {NoString},
     wellFormed : {TRUE}]

\* A call with none of the optional arguments. filePath is the cutoffFilePath
\* or coursesFilePath argument of the two load tools; wellFormed says that the
\* arguments pass the dispatcher's check for the tool (login: email and
\* password are strings; generate_choices: an arguments object; submit_choices:
\* selections is an array).
NoArgs ==
    [districtChoices |-> NoList, topPrefDist |-> NoList, minCutoff |-> NoNumber,
     category |-> NoString, filePath |-> NoString, wellFormed |-> TRUE]

BadArgs == [NoArgs EXCEPT !.wellFormed = FALSE]

\* The path the dispatcher hands to handleLoadCutoffData and to
\* handleLoadCoursePreferences.
cutoffPath == "./data/2024cutoff.json"
coursesPath == "./data/preferred_courses.json"

\* What a caller may pass to a load tool: nothing, or a file of its own.
LoadCutoffArgs ==
    {NoArgs, [NoArgs EXCEPT !.filePath = Given("./my/cutoff.json")]}
LoadCoursesArgs ==
    {NoArgs, [NoArgs EXCEPT !.filePath = Given("./my/courses.json")]}

SessionIds == {"sid-1", "sid-2"}

-----------------------------------------------------------------------------
(* Replies *)

NoPayload == [selections |-> <<>>, reference |-> <<>>]

\* A reply: tool is the tool name an error message carries, filePath the file
\* a load tool reports having read.

\* A handler returned a result whose text starts with the check mark.
Success(text, payload) ==
    [kind |-> "success", code |-> "", tool |-> "", text |-> text,
     filePath |-> "", payload |-> payload]

\* A load handler's success text ends with `from ${filePath}`.
Loaded(text, filePath) ==
    [Success(text, NoPayload) EXCEPT !.filePath = filePath]

\* A handler returned a result whose text starts with the cross.
Failure(text) ==
    [kind |-> "failure", code |-> "", tool |-> "", text |-> text,
     filePath |-> "", payload |-> NoPayload]

\* A catch that rethrows an McpError as it is and wraps any other error.
CaughtKeepsMcpError(name, code, message) ==
    [kind |-> "error", code |-> IF code = "Error" THEN "InternalError" ELSE code,
     tool |-> name, text |-> message, filePath |-> "", payload |-> NoPayload]

\* The dispatcher's catch. Whatever was thrown inside the try (an McpError with
\* its code, or a plain Error, code "Error"), the caller gets
\* McpError(ErrorCode.InternalError, `Error executing tool ${name}: ${message}`).
Caught(name, code, message) ==
    [kind |-> "error", code |-> "InternalError", tool |-> name, text |-> message,
     filePath |-> "", payload |-> NoPayload]

\* A handler of tool name threw new Error(message).
McpError(name, message) == Caught(name, "Error", message)

NoReply ==
    [kind |-> "none", code |-> "", tool |-> "", text |-> "", filePath |-> "",
     payload |-> NoPayload]

Request(name, args) == [name |-> name, args |-> args]

-----------------------------------------------------------------------------
(* The server *)

\* Fields of a freshly constructed TNEAMCPServer.
Init ==
    /\ sessionId = "null"
    /\ seatMatrix = JsonArray(<<>>)
    /\ cutoffData = JsonArray(<<>>)
    /\ preferredCourses = JsonArray(<<>>)
    /\ request = Request("none", NoArgs)
    /\ reply = NoReply
    /\ inflight = {}

\* What the portal may answer to the seat-matrix request.
PortalSeatBodies ==
    {JsonArray(<<>>), JsonArray(<<s1, s2>>), JsonArray(<<s3, s1, s4>>)} \cup NonArrays

\* handleLogin that clears this.sessionId when the login does not succeed.
handleLoginClearsSession(outcome, sid) ==
    /\ request' = Request("login", NoArgs)
    /\ sessionId' = IF outcome = "accepted" THEN sid ELSE "null"
    /\ reply' = CASE outcome = "accepted" -> Success("Login successful", NoPayload)
                  [] outcome = "rejected" -> Failure("Login failed: Invalid login credentials")
                  [] OTHER -> Failure("Login failed")
    /\ UNCHANGED <<seatMatrix, cutoffData, preferredCourses>>

\* handleLogin. outcome is what the portal did: "accepted" (the body carries a
\* sessionId), "rejected" (it carries none), "unreachable" (fetch or json() rejects).
handleLogin(outcome, sid) ==
    /\ request' = Request("login", NoArgs)
    /\ sessionId' = IF outcome = "accepted" THEN sid ELSE sessionId
    /\ reply' = CASE outcome = "accepted" -> Success("Login successful", NoPayload)
                  [] outcome = "rejected" -> Failure("Login failed: Invalid login credentials")
                  [] OTHER -> Failure("Login failed")
    /\ UNCHANGED <<seatMatrix, cutoffData, preferredCourses>>

\* handleGetAvailableSeats. outcome is what the environment did:
\*   "unreachable"  fetch rejects, or the body is not JSON and json() rejects;
\*   "saveFails"    the body parses to data, fs.writeFile rejects;
\*   "saved"        the body parses to data, fs.writeFile resolves.
\* data.filter is a TypeError when data is not an array.
NotLoggedIn == "Not logged in. Please login first."

handleGetAvailableSeats(outcome, data) ==
    /\ request' = Request("get_available_seats", NoArgs)
    /\ IF sessionId = "null"
       THEN /\ reply' = McpError("get_available_seats", NotLoggedIn)
            /\ UNCHANGED seatMatrix
       ELSE IF outcome = "unreachable"
            THEN /\ reply' = Failure("Failed to fetch seat matrix")
                 /\ UNCHANGED seatMatrix
            ELSE /\ seatMatrix' = data
                 /\ reply' = IF outcome = "saveFails" \/ data.kind # "array"
                             THEN Failure("Failed to fetch seat matrix")
                             ELSE Success("Fetched", NoPayload)
    /\ UNCHANGED <<sessionId, cutoffData, preferredCourses>>

\* handleLoadCutoffData, called with the arguments args: the dispatcher passes
\* filePath. outcome "unreadable": readFile(filePath) rejects or JSON.parse
\* throws; "parsed": the file at filePath holds the JSON document doc. The
\* success text reads this.cutoffData.length, a TypeError when the document is
\* null.
handleLoadCutoffData(args, filePath, outcome, doc) ==
    /\ request' = Request("load_cutoff_data", args)
    /\ cutoffData' = IF outcome = "parsed" THEN doc ELSE cutoffData
    /\ reply' = IF outcome = "parsed" /\ doc.kind # "null"
                THEN Loaded("Loaded cutoff records", filePath)
                ELSE Failure("Failed to load cutoff data")
    /\ UNCHANGED <<sessionId, seatMatrix, preferredCourses>>

\* handleLoadCoursePreferences, as handleLoadCutoffData.
handleLoadCoursePreferences(args, filePath, outcome, doc) ==
    /\ request' = Request("load_course_preferences", args)
    /\ preferredCourses' = IF outcome = "parsed" THEN doc ELSE preferredCourses
    /\ reply' = IF outcome = "parsed" /\ doc.kind # "null"
                THEN Loaded("Loaded preferred courses", filePath)
                ELSE Failure("Failed to load course preferences")
    /\ UNCHANGED <<sessionId, seatMatrix, cutoffData>>

TypeError == "TypeError"

\* The reply of handleGenerateChoices: the four guards in their order, the
\* defaults of the destructuring, the ranker. doc.length === 0 holds of an empty
\* array only; it is a TypeError on null and false on any other object.
GenerateChoicesReply(args) ==
    CASE seatMatrix.kind = "null" -> McpError("generate_choices", TypeError)
      [] seatMatrix = JsonArray(<<>>) ->
            McpError("generate_choices", "Seat matrix not loaded. Please fetch available seats first.")
      [] cutoffData.kind = "null" -> McpError("generate_choices", TypeError)
      [] cutoffData = JsonArray(<<>>) ->
            McpError("generate_choices", "Cutoff data not loaded. Please load cutoff data first.")
      [] preferredCourses.kind = "null" -> McpError("generate_choices", TypeError)
      [] preferredCourses = JsonArray(<<>>) ->
            McpError("generate_choices", "Course preferences not loaded. Please load course preferences first.")
      [] ~args.districtChoices.present ->
            McpError("generate_choices", "districtChoices is required and must be an array")
      [] OTHER ->
            LET topPrefDist == IF args.topPrefDist.present THEN args.topPrefDist.v ELSE <<>>
                minCutoff == IF args.minCutoff.present THEN args.minCutoff.v ELSE 850
                category == IF args.category.present THEN args.category.v ELSE "MBC"
                result == generateSelectionPayload(args.districtChoices.v, topPrefDist,
                                                   minCutoff, category)
            IN  IF result.threw THEN McpError("generate_choices", TypeError)
                ELSE Success("Generated choices",
                             [selections |-> result.selections,
                              reference |-> result.reference])

RECURSIVE Reversed(_)
Reversed(list) ==
    IF list = <<>> THEN <<>>
    ELSE <<list[Len(list)]>> \o Reversed(SubSeq(list, 1, Len(list) - 1))

\* handleGenerateChoices with a ranker that reorders this.seatMatrix in place.
handleGenerateChoicesReordersSeats(args) ==
    /\ request' = Request("generate_choices", args)
    /\ reply' = GenerateChoicesReply(args)
    /\ seatMatrix' = IF seatMatrix.kind = "array"
                     THEN JsonArray(Reversed(seatMatrix.items))
                     ELSE seatMatrix
    /\ UNCHANGED <<sessionId, cutoffData, preferredCourses>>

\* handleGenerateChoices that empties this.seatMatrix once it has ranked it.
handleGenerateChoicesConsumesSeats(args) ==
    /\ request' = Request("generate_choices", args)
    /\ reply' = GenerateChoicesReply(args)
    /\ seatMatrix' = IF GenerateChoicesReply(args).kind = "success"
                     THEN JsonArray(<<>>)
                     ELSE seatMatrix
    /\ UNCHANGED <<sessionId, cutoffData, preferredCourses>>

\* handleGenerateChoices with an await between its checks and the ranking: a
\* get_available_seats suspended at its fetch resumes there and stores an empty
\* body.
handleGenerateChoicesAwaits(args) ==
    /\ request' = Request("generate_choices", args)
    /\ UNCHANGED <<sessionId, cutoffData, preferredCourses>>
    /\ seatMatrix' =
          IF \E t \in inflight : t.tool = "get_available_seats" /\ t.stage = "fetch"
          THEN JsonArray(<<>>)
          ELSE seatMatrix
    /\ reply' = IF GenerateChoicesReply(args).kind = "error"
                THEN GenerateChoicesReply(args)
                ELSE GenerateChoicesReply(args)'

handleGenerateChoices(args) ==
    /\ request' = Request("generate_choices", args)
    /\ reply' = GenerateChoicesReply(args)
    /\ UNCHANGED <<sessionId, seatMatrix, cutoffData, preferredCourses>>

\* handleSubmitChoices without the test of this.sessionId.
handleSubmitChoicesUnguarded(outcome) ==
    /\ request' = Request("submit_choices", NoArgs)
    /\ reply' = IF outcome = "unreachable"
                THEN Failure("Failed to submit choices")
                ELSE Success("Choices submitted", NoPayload)
    /\ UNCHANGED <<sessionId, seatMatrix, cutoffData, preferredCourses>>

\* handleSubmitChoices. outcome "unreachable": fetch or json() rejects.
handleSubmitChoices(outcome) ==
    /\ request' = Request("submit_choices", NoArgs)
    /\ reply' = IF sessionId = "null"
                THEN McpError("submit_choices", NotLoggedIn)
                ELSE IF outcome = "unreachable"
                     THEN Failure("Failed to submit choices")
                     ELSE Success("Choices submitted", NoPayload)
    /\ UNCHANGED <<sessionId, seatMatrix, cutoffData, preferredCourses>>

\* handleGetSessionStatus reads the length of the three datasets.
handleGetSessionStatus ==
    /\ request' = Request("get_session_status", NoArgs)
    /\ reply' = IF "null" \in {seatMatrix.kind, cutoffData.kind, preferredCourses.kind}
                THEN McpError("get_session_status", TypeError)
                ELSE Success("Session Status", NoPayload)
    /\ UNCHANGED <<sessionId, seatMatrix, cutoffData, preferredCourses>>

\* Under Dispatch a call is handled from its dispatch to its reply, no other
\* handler in between: nothing is left suspended.
Login ==
    /\ \E outcome \in {"accepted", "rejected", "unreachable"}, sid \in SessionIds :
            handleLogin(outcome, sid)
    /\ UNCHANGED inflight

GetAvailableSeats ==
    /\ \E outcome \in {"unreachable", "saveFails", "saved"}, data \in PortalSeatBodies :
            handleGetAvailableSeats(outcome, data)
    /\ UNCHANGED inflight

LoadCutoffData ==
    /\ \E args \in LoadCutoffArgs, outcome \in {"unreadable", "parsed"},
          doc \in CutoffDocs :
            handleLoadCutoffData(args, cutoffPath, outcome, doc)
    /\ UNCHANGED inflight

LoadCoursePreferences ==
    /\ \E args \in LoadCoursesArgs, outcome \in {"unreadable", "parsed"},
          doc \in CourseDocs :
            handleLoadCoursePreferences(args, coursesPath, outcome, doc)
    /\ UNCHANGED inflight

GenerateChoices ==
    /\ \E args \in GenerateChoicesArgs : handleGenerateChoices(args)
    /\ UNCHANGED inflight

SubmitChoices ==
    /\ \E outcome \in {"unreachable", "submitted"} : handleSubmitChoices(outcome)
    /\ UNCHANGED inflight

GetSessionStatus == handleGetSessionStatus /\ UNCHANGED inflight

\* The dispatcher's argument checks: a login without string email and password,
\* a generate_choices without arguments, a submit_choices whose selections is
\* not an array throw McpError(ErrorCode.InvalidParams) inside the try.
InvalidParamsMessage(name) ==
    CASE name = "login" -> "Login requires email and password"
      [] name = "generate_choices" -> "Generate choices requires parameters"
      [] OTHER -> "Submit choices requires selections array"

InvalidArguments ==
    \E name \in {"login", "generate_choices", "submit_choices"} :
        /\ request' = Request(name, BadArgs)
        /\ reply' = Caught(name, "InvalidParams", InvalidParamsMessage(name))
        /\ UNCHANGED <<sessionId, seatMatrix, cutoffData, preferredCourses, inflight>>

\* The default case of the switch throws McpError(ErrorCode.MethodNotFound)
\* inside the try.
UnknownTool ==
    /\ request' = Request("unknown_tool", NoArgs)
    /\ reply' = Caught("unknown_tool", "MethodNotFound", "Unknown tool: unknown_tool")
    /\ UNCHANGED <<sessionId, seatMatrix, cutoffData, preferredCourses, inflight>>

Next ==
    \/ Login
    \/ GetAvailableSeats
    \/ LoadCutoffData
    \/ LoadCoursePreferences
    \/ GenerateChoices
    \/ SubmitChoices
    \/ GetSessionStatus
    \/ InvalidArguments
    \/ UnknownTool

\* The server under any sequence of tool calls.
Spec == Init /\ [][Next]_vars

\* The ranker on its own: the server after a login, a fetch and the two loads
\* left it with a seat matrix and loaded datasets, then one generate_choices
\* call (the call changes no field, so a second one starts from the same fields).
InitRank ==
    /\ sessionId = "sid-1"
    /\ seatMatrix \in {JsonArray(m) : m \in SeqsUpTo(SeatRecords, MaxSeats)}
    /\ cutoffData \in {JsonArray(c) : c \in CutoffTables}
    /\ preferredCourses \in {JsonArray(c) : c \in CourseLists}
    /\ request = Request("none", NoArgs)
    /\ reply = NoReply
    /\ inflight = {}

NextRank == reply = NoReply /\ GenerateChoices

SpecRank == InitRank /\ [][NextRank]_vars

-----------------------------------------------------------------------------
(* The server with its handlers interleaved *)

\* The dispatcher does not wait for a call to end before it takes the next one:
\* an async handler runs until its next await, and other handlers run while it
\* is suspended there. handleGenerateChoices and generateSelectionPayload hold
\* no await, nor does handleGetSessionStatus: a call of theirs is one step.

\* Most handlers suspended at one time.
MaxInflight == 2

\* A handler suspended at an await; data is the parsed body that
\* handleGetAvailableSeats holds in its local const while it awaits writeFile.
Suspended(tool, stage, data) == [tool |-> tool, stage |-> stage, data |-> data]

\* The await at which each handler suspends first.
FirstAwait ==
    {Suspended("login", "fetch", JsonNull),
     Suspended("get_available_seats", "fetch", JsonNull),
     Suspended("load_cutoff_data", "readFile", JsonNull),
     Suspended("load_course_preferences", "readFile", JsonNull),
     Suspended("submit_choices", "fetch", JsonNull)}

\* What the portal and the files hold while handlers interleave.
InterleavedSeatBodies == {JsonArray(<<>>), JsonArray(<<s1, s2>>)}
InterleavedCutoffDocs == {JsonArray(<<k1>>)}
InterleavedCourseDocs == {JsonArray(<<Course("CS", "Computer Science"), Course("EC", "Electronics")>>)}

\* A call is dispatched and its handler runs up to its first await. The
\* handlers of the session tools test this.sessionId before that.
Suspend ==
    /\ Cardinality(inflight) < MaxInflight
    /\ \E t \in FirstAwait \ inflight :
          /\ t.tool \in {"get_available_seats", "submit_choices"} => sessionId # "null"
          /\ inflight' = inflight \cup {t}
    /\ UNCHANGED <<sessionId, seatMatrix, cutoffData, preferredCourses, request, reply>>

\* A session tool called before any login throws before its first await.
RefusedCall ==
    /\ sessionId = "null"
    /\ \/ handleGetAvailableSeats("unreachable", JsonNull)
       \/ handleSubmitChoices("unreachable")
    /\ UNCHANGED inflight

\* handleLogin resumes: every access to this.sessionId is after its awaits.
LoginResumes ==
    /\ Suspended("login", "fetch", JsonNull) \in inflight
    /\ inflight' = inflight \ {Suspended("login", "fetch", JsonNull)}
    /\ \E outcome \in {"accepted", "rejected", "unreachable"} :
          handleLogin(outcome, "sid-1")

\* handleGetAvailableSeats resumes from fetch and response.json(): it stores the
\* body and suspends at writeFile, or it ends in its catch.
SeatsFetched ==
    LET t == Suspended("get_available_seats", "fetch", JsonNull)
    IN  /\ t \in inflight
        /\ \/ /\ inflight' = inflight \ {t}
              /\ request' = Request("get_available_seats", NoArgs)
              /\ reply' = Failure("Failed to fetch seat matrix")
              /\ UNCHANGED seatMatrix
           \/ \E data \in InterleavedSeatBodies :
                /\ seatMatrix' = data
                /\ inflight' = (inflight \ {t})
                                    \cup {Suspended("get_available_seats", "writeFile", data)}
                /\ UNCHANGED <<request, reply>>
        /\ UNCHANGED <<sessionId, cutoffData, preferredCourses>>

\* handleGetAvailableSeats resumes from writeFile and replies.
SeatsSaved ==
    \E t \in inflight, outcome \in {"saveFails", "saved"} :
        /\ t.tool = "get_available_seats"
        /\ t.stage = "writeFile"
        /\ inflight' = inflight \ {t}
        /\ request' = Request("get_available_seats", NoArgs)
        /\ reply' = IF outcome = "saveFails" \/ t.data.kind # "array"
                    THEN Failure("Failed to fetch seat matrix")
                    ELSE Success("Fetched", NoPayload)
        /\ UNCHANGED <<sessionId, seatMatrix, cutoffData, preferredCourses>>

\* handleLoadCutoffData resumes from readFile.
CutoffDataRead ==
    /\ Suspended("load_cutoff_data", "readFile", JsonNull) \in inflight
    /\ inflight' = inflight \ {Suspended("load_cutoff_data", "readFile", JsonNull)}
    /\ \E outcome \in {"unreadable", "parsed"}, doc \in InterleavedCutoffDocs :
          handleLoadCutoffData(NoArgs, cutoffPath, outcome, doc)

\* handleLoadCoursePreferences resumes from readFile.
CoursePreferencesRead ==
    /\ Suspended("load_course_preferences", "readFile", JsonNull) \in inflight
    /\ inflight' = inflight \ {Suspended("load_course_preferences", "readFile", JsonNull)}
    /\ \E outcome \in {"unreadable", "parsed"}, doc \in InterleavedCourseDocs :
          handleLoadCoursePreferences(NoArgs, coursesPath, outcome, doc)

\* handleSubmitChoices resumes from fetch and response.json().
ChoicesSubmitted ==
    /\ Suspended("submit_choices", "fetch", JsonNull) \in inflight
    /\ inflight' = inflight \ {Suspended("submit_choices", "fetch", JsonNull)}
    /\ \E outcome \in {"unreachable", "submitted"} : handleSubmitChoices(outcome)

NextInterleaved ==
    \/ Suspend
    \/ RefusedCall
    \/ LoginResumes
    \/ SeatsFetched
    \/ SeatsSaved
    \/ CutoffDataRead
    \/ CoursePreferencesRead
    \/ ChoicesSubmitted
    \/ GenerateChoices
    \/ GetSessionStatus

\* The server with tool calls that overlap.
SpecInterleaved == Init /\ [][NextInterleaved]_vars

-----------------------------------------------------------------------------
(* Vocabulary of the properties *)

\* The last call was a generate_choices that returned the ranker's payload.
Ranked == request.name = "generate_choices" /\ reply.kind = "success"

Seats == seatMatrix.items
Cutoffs == cutoffData.items
Courses == preferredCourses.items
OutIds == reply.payload.selections
OutRefs == reply.payload.reference

\* The arguments the ranker ran with.
ArgDistricts == request.args.districtChoices.v
ArgTop == IF request.args.topPrefDist.present THEN request.args.topPrefDist.v ELSE <<>>
ArgMinCutoff == IF request.args.minCutoff.present THEN request.args.minCutoff.v ELSE 850
ArgCategory == IF request.args.category.present THEN request.args.category.v ELSE "MBC"

\* Two characters that are the same letter, whatever their case.
SameLetter(a, b) ==
    a = b \/ \E k \in DOMAIN Uppers : {a, b} = {Uppers[k], Lowers[k]}

\* frag occurs in name as a case-insensitive substring.
ContainsFold(name, frag) ==
    \E off \in 0..(Len(name) - Len(frag)) :
        \A k \in 1..Len(frag) : SameLetter(name[off + k], frag[k])

InSomeDistrict(name, frags) == \E d \in DOMAIN frags : ContainsFold(name, frags[d])

\* The seat's course is in the loaded whitelist.
Whitelisted(seat) == \E c \in DOMAIN Courses : Courses[c].branCode = seat.branCode

\* The seat's count for the requested category is a number greater than 0.
HasSeats(seat) ==
    /\ ArgCategory \in DOMAIN seat
    /\ seat[ArgCategory].t = "num"
    /\ seat[ArgCategory].n > 0

\* Cutoff record c is for the seat's college and for course brc.
CutoffFor(c, seat, brc) ==
    String(Cutoffs[c].coc) = String(seat.colCode) /\ Cutoffs[c].brc = brc

HasExactCutoff(seat) == \E c \in DOMAIN Cutoffs : CutoffFor(c, seat, seat.branCode)
HasCSCutoff(seat) == \E c \in DOMAIN Cutoffs : CutoffFor(c, seat, "CS")

\* A reference entry that belongs to Group A under the call's arguments.
InGroupA(ref) == InSomeDistrict(ref.college, ArgTop) /\ ref.cutoff > ArgMinCutoff

\* The candidates after the district filter, and the two groups made of them.
Filtered ==
    filteredByDistrict(sorted(validSelections(Seats, Cutoffs, Courses, ArgCategory)),
                       ArgDistricts)
GroupA == topPreferredHighCutoff(Filtered, ArgTop, ArgMinCutoff)
GroupB == others(Filtered, ArgTop, ArgMinCutoff)

-----------------------------------------------------------------------------
(* Properties *)

\* C1: the selections list and the reference list have the same length, and
\* reference[i] carries the college name, course name and resolved cutoff of a
\* seat record whose id is selections[i].
C1_IndexAligned ==
    Ranked =>
        /\ Len(OutIds) = Len(OutRefs)
        /\ \A i \in DOMAIN OutIds :
              \E p \in DOMAIN Seats :
                  /\ Seats[p]._id = OutIds[i]
                  /\ Seats[p].colName = OutRefs[i].college
                  /\ Seats[p].branName = OutRefs[i].branch
                  /\ LET m == MatchingCutoff(Cutoffs, Seats[p])
                     IN  /\ m # 0
                         /\ CutoffScore(Cutoffs[m], ArgCategory) = Number(OutRefs[i].cutoff)

\* A ranking of two seats of different colleges.
C1_Witness ==
    /\ Ranked
    /\ \E i, j \in DOMAIN OutIds :
          OutIds[i] # OutIds[j] /\ OutRefs[i].college # OutRefs[j].college

\* C2: every output entry comes from a seat record whose course code is in the
\* course whitelist, whose seat count for the category is a number greater than
\* 0 and whose college name contains a districtChoices fragment, case ignored.
C2_FiltersHold ==
    Ranked =>
        \A i \in DOMAIN OutIds :
            \E p \in DOMAIN Seats :
                /\ Seats[p]._id = OutIds[i]
                /\ Whitelisted(Seats[p])
                /\ HasSeats(Seats[p])
                /\ InSomeDistrict(Seats[p].colName, ArgDistricts)

\* A ranking that kept a seat and left out one seat for each of the filters.
C2_Witness ==
    /\ Ranked
    /\ OutIds # <<>>
    /\ \E p \in DOMAIN Seats : ~Whitelisted(Seats[p])
    /\ \E p \in DOMAIN Seats : ~HasSeats(Seats[p])
    /\ \E p \in DOMAIN Seats : ~InSomeDistrict(Seats[p].colName, ArgDistricts)

\* C3: Group A holds exactly the candidates whose college matches a topPrefDist
\* fragment and whose cutoff is strictly greater than minCutoff (one whose
\* cutoff equals minCutoff is in Group B), and in the output all of Group A
\* comes before all of Group B.
C3_GroupAFirst ==
    Ranked =>
        LET groupA == GroupA
            groupB == GroupB
        IN  /\ OutRefs = Reference(groupA \o groupB)
            /\ \A a \in DOMAIN groupA : InGroupA(groupA[a])
            /\ \A b \in DOMAIN groupB : ~InGroupA(groupB[b])
            /\ \A i, j \in DOMAIN OutRefs :
                  (i < j /\ InGroupA(OutRefs[j])) => InGroupA(OutRefs[i])

\* A Group A entry placed before a Group B entry of higher cutoff, with an entry
\* of a top district whose cutoff equals minCutoff behind them.
C3_Witness ==
    /\ Ranked
    /\ \E i, j, k \in DOMAIN OutRefs :
          /\ i < j
          /\ InGroupA(OutRefs[i])
          /\ ~InGroupA(OutRefs[j])
          /\ OutRefs[i].cutoff < OutRefs[j].cutoff
          /\ i < k
          /\ InSomeDistrict(OutRefs[k].college, ArgTop)
          /\ OutRefs[k].cutoff = ArgMinCutoff

\* C4: within Group A and within Group B of the output the cutoffs are
\* non-increasing.
C4_SortedWithinGroups ==
    Ranked =>
        \A i, j \in DOMAIN OutRefs :
            (i < j /\ InGroupA(OutRefs[i]) = InGroupA(OutRefs[j]))
                => OutRefs[i].cutoff >= OutRefs[j].cutoff

\* Two entries of one group that the sort put in the order opposite to the
\* order of their seats.
C4_Witness ==
    /\ Ranked
    /\ Len(Seats) = 2
    /\ Len(OutIds) = 2
    /\ OutIds[1] = Seats[2]._id
    /\ OutIds[2] = Seats[1]._id
    /\ InGroupA(OutRefs[1]) = InGroupA(OutRefs[2])
    /\ OutRefs[1].cutoff > OutRefs[2].cutoff

\* The score the specification resolves from a cutoff record: the category
\* value when it parses as a number, else the OC value.
CategoryThenOC(cutoff) ==
    LET own == parseFloat(String(Get(cutoff, ArgCategory)))
    IN  IF ~own.nan THEN own ELSE parseFloat(String(cutoff.OC))

\* C5: a seat with a matched cutoff record gets the category value whenever
\* that value parses as a number (zero included) and the OC value otherwise,
\* and is dropped only when neither parses.
C5_CategoryValueWins ==
    Ranked =>
        \A p \in DOMAIN Seats :
            LET seat == Seats[p]
                m == MatchingCutoff(Cutoffs, seat)
            IN  (/\ Whitelisted(seat)
                 /\ HasSeats(seat)
                 /\ m # 0
                 /\ InSomeDistrict(seat.colName, ArgDistricts))
                => LET score == CategoryThenOC(Cutoffs[m])
                   IN  IF score.nan
                       THEN \A i \in DOMAIN OutIds : OutIds[i] # seat._id
                       ELSE \E i \in DOMAIN OutIds :
                               OutIds[i] = seat._id /\ OutRefs[i].cutoff = score.v

\* C6: generate_choices with districtChoices = [] is answered with an error.
C6_EmptyDistrictsRejected ==
    (/\ request.name = "generate_choices"
     /\ request.args.districtChoices.present
     /\ request.args.districtChoices.v = <<>>)
        => reply.kind = "error"

\* C7: a get_available_seats call that reports a failure leaves the seat
\* matrix as it was before the call.
C7_FailedFetchKeepsSeatMatrix ==
    [][(request'.name = "get_available_seats" /\ reply'.kind # "success")
            => seatMatrix' = seatMatrix]_vars

\* The first "CS" cutoff record of the seat's college.
FirstCSCutoff(seat) ==
    CHOOSE c \in DOMAIN Cutoffs :
        /\ CutoffFor(c, seat, "CS")
        /\ \A d \in DOMAIN Cutoffs : CutoffFor(d, seat, "CS") => c <= d

\* The seat passes the course and seat-count filters and only a "CS" record of
\* its college can give it a cutoff.
NeedsCSFallback(seat) ==
    /\ Whitelisted(seat)
    /\ HasSeats(seat)
    /\ ~HasExactCutoff(seat)
    /\ HasCSCutoff(seat)

\* C8: a seat that passes the course and seat-count filters and has no exact
\* cutoff record, but whose college has a "CS" record, is ranked with the
\* cutoff resolved from that record: it is in the output with that cutoff
\* whenever the record's score is a number and the college is in a chosen
\* district.
C8_FallbackToCS ==
    Ranked =>
        \A p \in DOMAIN Seats :
            LET seat == Seats[p]
            IN  NeedsCSFallback(seat) =>
                    LET score == CutoffScore(Cutoffs[FirstCSCutoff(seat)], ArgCategory)
                    IN  (~score.nan /\ InSomeDistrict(seat.colName, ArgDistricts))
                        => \E i \in DOMAIN OutIds :
                              /\ OutIds[i] = seat._id
                              /\ OutRefs[i].college = seat.colName
                              /\ OutRefs[i].branch = seat.branName
                              /\ OutRefs[i].cutoff = score.v

\* A seat ranked with the cutoff of its college's "CS" record.
C8_Witness ==
    /\ Ranked
    /\ \E p \in DOMAIN Seats :
          /\ NeedsCSFallback(Seats[p])
          /\ Seats[p].branCode # "CS"
          /\ \E i \in DOMAIN OutIds : OutIds[i] = Seats[p]._id

\* C9: a seat whose college has no cutoff record, neither for the seat's own
\* course nor for "CS", is not in the output.
C9_UnmatchedDropped ==
    Ranked =>
        \A p \in DOMAIN Seats :
            (~HasExactCutoff(Seats[p]) /\ ~HasCSCutoff(Seats[p]))
                => \A i \in DOMAIN OutIds : OutIds[i] # Seats[p]._id

\* A ranking that kept a seat and dropped another one, which passes every
\* filter, for want of a cutoff record.
C9_Witness ==
    /\ Ranked
    /\ OutIds # <<>>
    /\ \E p \in DOMAIN Seats :
          /\ Whitelisted(Seats[p])
          /\ HasSeats(Seats[p])
          /\ InSomeDistrict(Seats[p].colName, ArgDistricts)
          /\ ~HasExactCutoff(Seats[p])
          /\ ~HasCSCutoff(Seats[p])

\* C10: two output entries of equal cutoff and of the same group are in the
\* order in which seat records with their ids are in the seat matrix.
C10_TiesKeepSeatOrder ==
    Ranked =>
        \A i, j \in DOMAIN OutIds :
            (/\ i < j
             /\ OutRefs[i].cutoff = OutRefs[j].cutoff
             /\ InGroupA(OutRefs[i]) = InGroupA(OutRefs[j]))
                => \E p, q \in DOMAIN Seats :
                      /\ p < q
                      /\ Seats[p]._id = OutIds[i]
                      /\ Seats[q]._id = OutIds[j]

\* Two different seats tied on the cutoff in one group.
C10_Witness ==
    /\ Ranked
    /\ \E i, j \in DOMAIN OutIds :
          /\ i < j
          /\ OutIds[i] # OutIds[j]
          /\ OutRefs[i].cutoff = OutRefs[j].cutoff
          /\ InGroupA(OutRefs[i]) = InGroupA(OutRefs[j])

\* The session holds no record of the dataset.
EmptyDataset(doc) == doc = JsonArray(<<>>)

\* The error text that names the first empty dataset in the order seat
\* matrix, cutoff data, course preferences.
FirstMissingDataset ==
    IF EmptyDataset(seatMatrix)
    THEN "Seat matrix not loaded. Please fetch available seats first."
    ELSE IF EmptyDataset(cutoffData)
         THEN "Cutoff data not loaded. Please load cutoff data first."
         ELSE "Course preferences not loaded. Please load course preferences first."

\* C11: a generate_choices call made while the seat matrix, the cutoff data or
\* the course preferences is empty is answered with an error whose message
\* names the first empty dataset in the order seat matrix, cutoff data, course
\* preferences.
C11_MissingDatasetNamed ==
    (/\ request.name = "generate_choices"
     /\ request.args.wellFormed
     /\ \/ EmptyDataset(seatMatrix)
        \/ EmptyDataset(cutoffData)
        \/ EmptyDataset(preferredCourses))
        => (reply.kind = "error" /\ reply.text = FirstMissingDataset)

\* The fields of the server object.
fields == <<sessionId, seatMatrix, cutoffData, preferredCourses>>

\* The tools whose handlers send a request to the portal under the session id.
\* Their handlers throw only before the fetch, so a call of theirs that is
\* answered with an error sent nothing.
SessionTools == {"get_available_seats", "submit_choices"}

\* C12: the session id is set only by a login that succeeds, and while it is
\* not set a get_available_seats or submit_choices call is answered with an
\* error (the 'Not logged in' error when its arguments are well formed), so
\* that nothing is sent to the portal, and no field changes.
C12_NoPortalRequestBeforeLogin ==
    [][/\ (sessionId = "null" /\ sessionId' # "null")
            => (request'.name = "login" /\ reply'.kind = "success")
       /\ (sessionId = "null" /\ request'.name \in SessionTools)
            => /\ reply'.kind = "error"
               /\ request'.args.wellFormed => reply'.text = NotLoggedIn
               /\ fields' = fields]_vars

\* A submit_choices call before any login was answered 'Not logged in'.
C12_Witness ==
    /\ request = Request("submit_choices", NoArgs)
    /\ sessionId = "null"
    /\ reply = McpError("submit_choices", NotLoggedIn)

\* C13: a generate_choices call that follows a generate_choices call with the
\* same arguments, no other call between them, gets the same reply: the same
\* choice list in the same order.
C13_RepeatedCallSameReply ==
    [][(request.name = "generate_choices" /\ request' = request)
            => reply' = reply]_vars

\* A generate_choices call ranked two seats or more, and the reply it got is
\* the one the same call gets from the state it left.
C13_Witness ==
    /\ Ranked
    /\ Len(OutIds) >= 2
    /\ reply = GenerateChoicesReply(request.args)

\* C14: a generate_choices call, whether it returns or throws, leaves
\* sessionId, the seat matrix, the cutoff data and the course preferences as
\* they were.
C14_GenerateChangesNoField ==
    [][request'.name = "generate_choices" => fields' = fields]_vars

\* A generate_choices call returned a list whose order is not that of the
\* seat matrix, which still holds its records in their order.
C14_Witness ==
    /\ Ranked
    /\ Len(OutIds) >= 2
    /\ \E i, j \in DOMAIN Seats :
          i < j /\ OutIds[1] = Seats[j]._id /\ OutIds[2] = Seats[i]._id

\* The path a load call is to read: the one its argument gives, the default of
\* the tool when it gives none.
PathAskedFor ==
    IF request.args.filePath.present THEN request.args.filePath.v
    ELSE IF request.name = "load_cutoff_data"
         THEN "./data/2024cutoff.json"
         ELSE "./data/preferred_courses.json"

\* C15: a load_cutoff_data or load_course_preferences call that succeeds has
\* read the file named by its cutoffFilePath or coursesFilePath argument, and
\* the default file only when the argument is omitted.
C15_LoadReadsGivenPath ==
    (/\ request.name \in {"load_cutoff_data", "load_course_preferences"}
     /\ reply.kind = "success")
        => reply.filePath = PathAskedFor

\* C16: a load_cutoff_data or load_course_preferences call that does not
\* report success leaves the dataset it loads as it was before the call.
C16_FailedLoadKeepsDataset ==
    [][/\ (request'.name = "load_cutoff_data" /\ reply'.kind # "success")
            => cutoffData' = cutoffData
       /\ (request'.name = "load_course_preferences" /\ reply'.kind # "success")
            => preferredCourses' = preferredCourses]_vars

\* The first cutoff record of the seat's college for course brc.
FirstCutoffFor(seat, brc) ==
    CHOOSE c \in DOMAIN Cutoffs :
        /\ CutoffFor(c, seat, brc)
        /\ \A d \in DOMAIN Cutoffs : CutoffFor(d, seat, brc) => c <= d

\* C17: a seat that passes the course and seat-count filters and has a cutoff
\* record for its own course is ranked by the first such record of the cutoff
\* list, wherever the "CS" records of its college are: every output entry of
\* the seat carries the score of that record, the seat is in the output when
\* that score is a number and the college is in a chosen district, and it is
\* not in the output when that score is not a number.
C17_FirstExactRecordWins ==
    Ranked =>
        \A p \in DOMAIN Seats :
            LET seat == Seats[p]
            IN  (Whitelisted(seat) /\ HasSeats(seat) /\ HasExactCutoff(seat)) =>
                    LET score == CutoffScore(Cutoffs[FirstCutoffFor(seat, seat.branCode)],
                                             ArgCategory)
                    IN  /\ \A i \in DOMAIN OutIds :
                              OutIds[i] = seat._id
                                  => (~score.nan /\ OutRefs[i].cutoff = score.v)
                        /\ (~score.nan /\ InSomeDistrict(seat.colName, ArgDistricts))
                              => \E i \in DOMAIN OutIds : OutIds[i] = seat._id

\* One ranking in which a seat with two records for its course is in the
\* output with the score of the earlier one, and a seat whose own record has
\* no numeric score is left out although its college has a "CS" record with a
\* numeric score.
C17_Witness ==
    /\ Ranked
    /\ \E p \in DOMAIN Seats, c, d \in DOMAIN Cutoffs :
          /\ c < d
          /\ CutoffFor(c, Seats[p], Seats[p].branCode)
          /\ CutoffFor(d, Seats[p], Seats[p].branCode)
          /\ CutoffScore(Cutoffs[c], ArgCategory) # CutoffScore(Cutoffs[d], ArgCategory)
          /\ \E i \in DOMAIN OutIds :
                /\ OutIds[i] = Seats[p]._id
                /\ OutRefs[i].cutoff = CutoffScore(Cutoffs[c], ArgCategory).v
    /\ \E q \in DOMAIN Seats :
          /\ Whitelisted(Seats[q])
          /\ HasSeats(Seats[q])
          /\ InSomeDistrict(Seats[q].colName, ArgDistricts)
          /\ Seats[q].branCode # "CS"
          /\ HasExactCutoff(Seats[q])
          /\ CutoffScore(Cutoffs[FirstCutoffFor(Seats[q], Seats[q].branCode)],
                         ArgCategory).nan
          /\ HasCSCutoff(Seats[q])
          /\ ~CutoffScore(Cutoffs[FirstCutoffFor(Seats[q], "CS")], ArgCategory).nan
          /\ \A i \in DOMAIN OutIds : OutIds[i] # Seats[q]._id

\* C19: once set, sessionId is never null again, and a login that does not
\* succeed leaves sessionId as it was, so that a later get_available_seats or
\* submit_choices with well-formed arguments is not answered with an error.
C19_SessionIdKept ==
    [][/\ sessionId # "null" => sessionId' # "null"
       /\ (request'.name = "login" /\ reply'.kind # "success")
            => sessionId' = sessionId
       /\ (/\ sessionId # "null"
           /\ request'.name \in SessionTools
           /\ request'.args.wellFormed)
            => reply'.kind # "error"]_vars

\* A login failed after an earlier one had succeeded, and the session id of
\* the earlier one is still there.
C19_Witness ==
    /\ request.name = "login"
    /\ reply.kind = "failure"
    /\ sessionId \in SessionIds

\* The tools whose handlers do input or output: the portal, the file system.
IOTools ==
    {"login", "get_available_seats", "load_cutoff_data", "load_course_preferences",
     "submit_choices"}

\* C20: an unknown tool and a call whose arguments fail the dispatcher's check
\* are answered with an error; every error that reaches the caller has the code
\* InternalError and a message that names the tool called; and the only errors
\* of the tools that do input or output are those of the argument check and of
\* the logged-in check, never a failure of the input or output itself.
C20_ErrorsAreInternalError ==
    /\ (request.name = "unknown_tool" \/ ~request.args.wellFormed)
            => reply.kind = "error"
    /\ reply.kind = "error"
            => (reply.code = "InternalError" /\ reply.tool = request.name)
    /\ (reply.kind = "error" /\ request.name \in IOTools)
            => (~request.args.wellFormed \/ reply.text = NotLoggedIn)

\* A login without email and password was answered with an InternalError.
C20_Witness ==
    /\ request = Request("login", BadArgs)
    /\ reply.kind = "error"
    /\ reply.code = "InternalError"

\* C18: while other handlers are suspended at their awaits, the step of a
\* generate_choices call (the step that ends with a generate_choices request
\* and resumes no suspended handler) changes no field, and its reply is the one
\* that the precondition checks and the ranker give on the fields as they were
\* when the step began.
C18_GenerateRanksOneSnapshot ==
    [][(request'.name = "generate_choices" /\ inflight' = inflight)
            => /\ fields' = fields
               /\ reply' = GenerateChoicesReply(request'.args)]_vars

\* A generate_choices call ranked the seat matrix that a get_available_seats
\* handler, still suspended at its writeFile, had stored.
C18_Witness ==
    /\ Ranked
    /\ OutIds # <<>>
    /\ reply = GenerateChoicesReply(request.args)
    /\ Suspended("get_available_seats", "writeFile", seatMatrix) \in inflight

\* How many entries of list are equal to item.
Occurrences(list, item) == Cardinality({k \in DOMAIN list : list[k] = item})

\* C21: an id is in the output at most as many times as the seat matrix has
\* records with that id (so every output id is the id of a seat record, and
\* an id that is unique in the seat matrix is not repeated), the output has no
\* more entries than the seat matrix, and Group A and Group B share no entry
\* and together hold each candidate that passed the district filter as many
\* times as the filter let it through, and nothing else.
C21_OneEntryPerSeat ==
    Ranked =>
        LET passed == Filtered
            groupA == topPreferredHighCutoff(passed, ArgTop, ArgMinCutoff)
            groupB == others(passed, ArgTop, ArgMinCutoff)
            both == groupA \o groupB
        IN  /\ Len(OutIds) <= Len(Seats)
            /\ \A i \in DOMAIN OutIds :
                  Occurrences(OutIds, OutIds[i])
                      <= Cardinality({p \in DOMAIN Seats : Seats[p]._id = OutIds[i]})
            /\ OutIds = Selections(both)
            /\ Len(groupA) + Len(groupB) = Len(passed)
            /\ \A k \in DOMAIN passed :
                  Occurrences(both, passed[k]) = Occurrences(passed, passed[k])
            /\ \A a \in DOMAIN groupA : \A b \in DOMAIN groupB : groupA[a] # groupB[b]

\* A ranking with entries in both groups that left a seat record out.
C21_Witness ==
    /\ Ranked
    /\ GroupA # <<>>
    /\ GroupB # <<>>
    /\ \E p \in DOMAIN Seats : \A i \in DOMAIN OutIds : OutIds[i] # Seats[p]._id

=============================================================================
